---- MODULE Spec2Model ----
(***************************************************************************)
(* Model of two partner adapters of the repository:                        *)
(*   - VoyageAIEmbeddings (langchain_voyageai/embeddings.py): construction *)
(*     defaults, the batch iterator, and the four embed operations, each   *)
(*     split at its remote calls (the only points where a caller blocks or *)
(*     a coroutine is suspended);                                          *)
(*   - AI21Base (langchain_ai21/ai21_base.py): the resolution of the       *)
(*     constructor options against the process environment.                *)
(* Python's None is the empty tuple <<>> and a present value v is <<v>>.   *)
(***************************************************************************)
EXTENDS Integers, Sequences, FiniteSets, TLC

VARIABLES
    kwargs,          \* keyword arguments given to VoyageAIEmbeddings(...), per instance
    self,            \* the VoyageAIEmbeddings instances (fields of the pydantic model)
    tqdm_installed,  \* whether "from tqdm.auto import tqdm" succeeds in this process
    instances,       \* the adapter instances the program creates
    tasks,           \* the invocations (threads / coroutines) the program runs
    inv,             \* per invocation: its frame (locals, position) and what it did
    ai_args,         \* keyword arguments given to AI21Base(...)
    ai_env,          \* the process environment (os.environ) seen by AI21Base
    ai_values,       \* the values dict of AI21Base as the validators leave it
    ai_pc            \* position in the construction of AI21Base

vars == <<kwargs, self, tqdm_installed, instances, tasks, inv,
          ai_args, ai_env, ai_values, ai_pc>>

voyage_vars == <<kwargs, self, tqdm_installed, instances, tasks, inv>>
ai_vars == <<ai_args, ai_env, ai_values, ai_pc>>

-----------------------------------------------------------------------------
(* Bounds of the model.                                                    *)

MaxLen == 3        \* longest list of texts handed to an embed operation
MaxBatch == 2      \* largest batch_size passed explicitly to the constructor

(* Python's Optional.                                                      *)
None == <<>>
Some(v) == <<v>>
IsNone(o) == o = <<>>
Val(o) == o[1]

(* The texts: contiguous windows of a corpus of pairwise distinct strings, *)
(* so that any reordering, loss or mix-up of vectors is visible.           *)
Corpus == <<"a", "b", "c", "d">>
Windows == { SubSeq(Corpus, i, j) : i \in 1..Len(Corpus), j \in 1..Len(Corpus) }
TextLists == {<<>>} \cup { s \in Windows : Len(s) <= MaxLen }
QueryTexts == {"a", "c"}

Adapters == {"A", "B"}
Tasks == {"t1", "t2"}

ModelNames == {"voyage-2", "voyage-02", "voyage-large-2"}
Truncations == {None, Some(TRUE), Some(FALSE)}
BatchSizes == (-1)..MaxBatch

AllKwargs ==
    [model : {None} \cup {Some(m) : m \in ModelNames},
     batch_size : {None} \cup {Some(b) : b \in BatchSizes},
     show_progress_bar : BOOLEAN,
     truncation : Truncations]

-----------------------------------------------------------------------------
(* VoyageAIEmbeddings: construction.                                       *)

DefaultBatchLarge == 72
DefaultBatchSmall == 7

\* root_validator(pre=True): fills in batch_size when it is absent or None.
default_values(values) ==
    IF IsNone(values.batch_size)
    THEN [values EXCEPT !.batch_size =
            Some(IF values.model \in {Some("voyage-2"), Some("voyage-02")}
                 THEN DefaultBatchLarge ELSE DefaultBatchSmall)]
    ELSE values

NotBuilt == [state |-> "none"]
Rejected == [state |-> "rejected"]

\* VoyageAIEmbeddings(**kw): the pre validator, then the field validation
\* ("model: str" has no default, so a missing model is a ValidationError).
\* No validator constrains batch_size beyond its type.
construct_instance(kw) ==
    LET values == default_values(kw) IN
    IF IsNone(values.model)
    THEN Rejected
    ELSE [state |-> "built",
          model |-> Val(values.model),
          batch_size |-> Val(values.batch_size),
          show_progress_bar |-> values.show_progress_bar,
          truncation |-> values.truncation]

-----------------------------------------------------------------------------
(* Python built-ins used by the adapter.                                   *)

\* list(range(start, stop, step)) for step # 0
RECURSIVE PyRange(_, _, _)
PyRange(start, stop, step) ==
    IF step > 0
    THEN IF start >= stop THEN <<>>
         ELSE <<start>> \o PyRange(start + step, stop, step)
    ELSE IF start <= stop THEN <<>>
         ELSE <<start>> \o PyRange(start + step, stop, step)

Min(a, b) == IF a <= b THEN a ELSE b
Max(a, b) == IF a >= b THEN a ELSE b

\* s[i:j] for 0 <= i (0-based, end exclusive, clipped to the list);
\* a negative j counts from the end
PySlice(s, i, j) ==
    LET hi == IF j < 0 THEN Max(Len(s) + j, 0) ELSE Min(j, Len(s))
    IN  IF i >= hi THEN <<>> ELSE SubSeq(s, i + 1, hi)

-----------------------------------------------------------------------------
(* The remote embedding service (voyageai.Client.embed and                 *)
(* AsyncClient.embed): a deterministic stub that returns one vector per    *)
(* input text, in order.  A vector is represented by everything the        *)
(* service may derive it from.                                             *)

Vector(text, model, input_type, truncation) ==
    [text |-> text, model |-> model, input_type |-> input_type,
     truncation |-> truncation]

client_embed(req) ==
    [j \in 1..Len(req.texts) |->
        Vector(req.texts[j], req.model, req.input_type, req.truncation)]

aclient_embed(req) ==
    [j \in 1..Len(req.texts) |->
        Vector(req.texts[j], req.model, req.input_type, req.truncation)]

-----------------------------------------------------------------------------
(* VoyageAIEmbeddings._get_batch_iterator                                  *)

\* mutant: the progress bar iterates over range(len(texts)), without the step
get_batch_iterator_unit_step(s, texts, tqdm_ok) ==
    IF s.show_progress_bar
    THEN IF ~tqdm_ok
         THEN [raised |-> "ImportError", starts |-> <<>>, bar |-> FALSE]
         ELSE [raised |-> "", starts |-> PyRange(0, Len(texts), 1), bar |-> TRUE]
    ELSE IF s.batch_size = 0
         THEN [raised |-> "ValueError", starts |-> <<>>, bar |-> FALSE]
         ELSE [raised |-> "", starts |-> PyRange(0, Len(texts), s.batch_size),
               bar |-> FALSE]

\* mutant: without tqdm the plain range is used silently
get_batch_iterator_fallback(s, texts, tqdm_ok) ==
    IF s.batch_size = 0
    THEN [raised |-> "ValueError", starts |-> <<>>, bar |-> FALSE]
    ELSE [raised |-> "", starts |-> PyRange(0, Len(texts), s.batch_size),
          bar |-> s.show_progress_bar /\ tqdm_ok]

\* The iterator: raised names the exception ("" when none), starts the
\* values it yields, bar whether it is a tqdm progress bar.
get_batch_iterator(s, texts, tqdm_ok) ==
    IF s.show_progress_bar
    THEN IF ~tqdm_ok
         THEN [raised |-> "ImportError", starts |-> <<>>, bar |-> FALSE]
         ELSE IF s.batch_size = 0
              THEN [raised |-> "ValueError", starts |-> <<>>, bar |-> FALSE]
              ELSE [raised |-> "", starts |-> PyRange(0, Len(texts), s.batch_size),
                    bar |-> TRUE]
    ELSE IF s.batch_size = 0
         THEN [raised |-> "ValueError", starts |-> <<>>, bar |-> FALSE]
         ELSE [raised |-> "", starts |-> PyRange(0, Len(texts), s.batch_size),
               bar |-> FALSE]

-----------------------------------------------------------------------------
(* The requests the four operations build.                                 *)

\* mutant: the slice loses its upper bound (texts[i:])
embed_documents_request_unbounded(s, texts, i) ==
    [texts |-> PySlice(texts, i, Len(texts)),
     model |-> s.model, input_type |-> "document", truncation |-> s.truncation]

embed_documents_request(s, texts, i) ==
    [texts |-> PySlice(texts, i, i + s.batch_size),
     model |-> s.model, input_type |-> "document", truncation |-> s.truncation]

\* mutant: the asynchronous form asks for query embeddings
aembed_documents_request_query(s, texts, i) ==
    [texts |-> PySlice(texts, i, i + s.batch_size),
     model |-> s.model, input_type |-> "query", truncation |-> s.truncation]

aembed_documents_request(s, texts, i) ==
    [texts |-> PySlice(texts, i, i + s.batch_size),
     model |-> s.model, input_type |-> "document", truncation |-> s.truncation]

\* mutant: the query is embedded as a document
embed_query_request_document(s, text) ==
    [texts |-> <<text>>,
     model |-> s.model, input_type |-> "document", truncation |-> s.truncation]

embed_query_request(s, text) ==
    [texts |-> <<text>>,
     model |-> s.model, input_type |-> "query", truncation |-> s.truncation]

aembed_query_request(s, text) ==
    [texts |-> <<text>>,
     model |-> s.model, input_type |-> "query", truncation |-> s.truncation]

-----------------------------------------------------------------------------
(* Invocation frames.                                                      *)

Idle ==
    [pc |-> "idle", kind |-> "", on |-> "", texts |-> <<>>, iter |-> <<>>,
     bar |-> FALSE, n |-> 0, embeddings |-> <<>>, calls |-> <<>>,
     responses |-> <<>>, result |-> None, error |-> ""]

\* the frame raises exc: it ends without a value
Raise(f, exc) == [f EXCEPT !.pc = "raised", !.error = exc, !.result = None]

\* the frame returns v
Return(f, v) == [f EXCEPT !.pc = "returned", !.result = Some(v)]

\* the frame issues the remote call req and is suspended on it
Issue(f, req) == [f EXCEPT !.pc = "awaiting", !.calls = Append(@, req)]

\* the remote call the frame is suspended on
Pending(f) == f.calls[Len(f.calls)]

\* the pending call has come back: with a result (ok) or with an exception
Responded(f, ok) == [f EXCEPT !.responses = Append(@, ok)]

\* tqdm's iterator counts an item once the loop body has finished with it
tqdm_update(f) == IF f.bar THEN [f EXCEPT !.n = @ + 1] ELSE f

\* mutant: the accumulator is shared by the invocations in flight on one
\* instance instead of being a local of each
extend_shared(frames, t, r) ==
    LET others == { u \in DOMAIN frames :
                      u # t /\ frames[u].pc = "awaiting" /\ frames[u].on = frames[t].on }
    IN  IF others = {}
        THEN frames[t].embeddings \o r
        ELSE frames[CHOOSE u \in others : TRUE].embeddings \o frames[t].embeddings \o r

\* embeddings.extend(r): embeddings is a local of the frame of task t
extend(frames, t, r) == frames[t].embeddings \o r

-----------------------------------------------------------------------------
(* VoyageAIEmbeddings.embed_documents                                      *)

\* "for i in _iter": the next chunk's call, or "return embeddings"
embed_documents_for(s, f) ==
    IF f.iter = <<>>
    THEN Return(f, f.embeddings)
    ELSE Issue([f EXCEPT !.iter = Tail(@)],
               embed_documents_request(s, f.texts, Head(f.iter)))

\* entry, up to the first remote call
embed_documents_enter(s, texts, tqdm_ok, a) ==
    LET it == get_batch_iterator(s, texts, tqdm_ok)
        f == [Idle EXCEPT !.kind = "embed_documents", !.on = a, !.texts = texts]
    IN  IF it.raised # ""
        THEN Raise(f, it.raised)
        ELSE embed_documents_for(s, [f EXCEPT !.iter = it.starts, !.bar = it.bar])

embed_documents(t, a, texts) ==
    /\ t \in tasks /\ inv[t].pc = "idle"
    /\ a \in instances /\ self[a].state = "built"
    /\ inv' = [inv EXCEPT ![t] = embed_documents_enter(self[a], texts, tqdm_installed, a)]
    /\ UNCHANGED <<kwargs, self, tqdm_installed, instances, tasks, ai_vars>>

\* mutant: a failed chunk is swallowed and the loop goes on without it
embed_documents_step_swallow(frames, s, t, ok) ==
    LET f == Responded(frames[t], ok) IN
    IF ok
    THEN embed_documents_for(s,
            tqdm_update([f EXCEPT !.embeddings =
                            extend(frames, t, client_embed(Pending(f)))]))
    ELSE embed_documents_for(s, f)

\* self._client.embed(...) comes back: with a result (extend, then on with
\* the loop) or with an exception, which nothing in the method catches
embed_documents_step(frames, s, t, ok) ==
    LET f == Responded(frames[t], ok) IN
    IF ok
    THEN embed_documents_for(s,
            tqdm_update([f EXCEPT !.embeddings =
                            extend(frames, t, client_embed(Pending(f)))]))
    ELSE Raise(f, "TransportError")

embed_documents_response(t, ok) ==
    /\ t \in tasks /\ inv[t].pc = "awaiting" /\ inv[t].kind = "embed_documents"
    /\ inv' = [inv EXCEPT ![t] = embed_documents_step(inv, self[inv[t].on], t, ok)]
    /\ UNCHANGED <<kwargs, self, tqdm_installed, instances, tasks, ai_vars>>

-----------------------------------------------------------------------------
(* VoyageAIEmbeddings.aembed_documents                                     *)

\* mutant: the calls of all remaining chunks are issued at once (a gather)
RECURSIVE IssueAll(_, _)
IssueAll(s, f) ==
    IF f.iter = <<>> THEN f
    ELSE IssueAll(s, Issue([f EXCEPT !.iter = Tail(@)],
                           [texts |-> PySlice(f.texts, Head(f.iter),
                                              Head(f.iter) + s.batch_size),
                            model |-> s.model, input_type |-> "document",
                            truncation |-> s.truncation]))
aembed_documents_for_gather(s, f) ==
    IF f.iter = <<>> THEN Return(f, f.embeddings) ELSE IssueAll(s, f)

\* "for i in _iter": the next chunk's awaited call, or "return embeddings"
aembed_documents_for(s, f) ==
    IF f.iter = <<>>
    THEN Return(f, f.embeddings)
    ELSE Issue([f EXCEPT !.iter = Tail(@)],
               aembed_documents_request(s, f.texts, Head(f.iter)))

\* entry, up to the first await
aembed_documents_enter(s, texts, tqdm_ok, a) ==
    LET it == get_batch_iterator(s, texts, tqdm_ok)
        f == [Idle EXCEPT !.kind = "aembed_documents", !.on = a, !.texts = texts]
    IN  IF it.raised # ""
        THEN Raise(f, it.raised)
        ELSE aembed_documents_for(s, [f EXCEPT !.iter = it.starts, !.bar = it.bar])

aembed_documents(t, a, texts) ==
    /\ t \in tasks /\ inv[t].pc = "idle"
    /\ a \in instances /\ self[a].state = "built"
    /\ inv' = [inv EXCEPT ![t] = aembed_documents_enter(self[a], texts, tqdm_installed, a)]
    /\ UNCHANGED <<kwargs, self, tqdm_installed, instances, tasks, ai_vars>>

\* the coroutine is resumed from "await self._aclient.embed(...)": with r
\* (extend, then on with the loop) or with the exception the call raised
aembed_documents_step(frames, s, t, ok) ==
    LET f == Responded(frames[t], ok) IN
    IF ok
    THEN aembed_documents_for(s,
            tqdm_update([f EXCEPT !.embeddings =
                            extend(frames, t, aclient_embed(Pending(f)))]))
    ELSE Raise(f, "TransportError")

aembed_documents_resume(t, ok) ==
    /\ t \in tasks /\ inv[t].pc = "awaiting" /\ inv[t].kind = "aembed_documents"
    /\ inv' = [inv EXCEPT ![t] = aembed_documents_step(inv, self[inv[t].on], t, ok)]
    /\ UNCHANGED <<kwargs, self, tqdm_installed, instances, tasks, ai_vars>>

-----------------------------------------------------------------------------
(* VoyageAIEmbeddings.embed_query and aembed_query                         *)

embed_query_enter(s, text, a) ==
    Issue([Idle EXCEPT !.kind = "embed_query", !.on = a, !.texts = <<text>>],
          embed_query_request(s, text))

embed_query(t, a, text) ==
    /\ t \in tasks /\ inv[t].pc = "idle"
    /\ a \in instances /\ self[a].state = "built"
    /\ inv' = [inv EXCEPT ![t] = embed_query_enter(self[a], text, a)]
    /\ UNCHANGED <<kwargs, self, tqdm_installed, instances, tasks, ai_vars>>

\* ".embeddings[0]" of what the call returned
embed_query_result(r) == r[1]

embed_query_response(t, ok) ==
    /\ t \in tasks /\ inv[t].pc = "awaiting" /\ inv[t].kind = "embed_query"
    /\ LET f == Responded(inv[t], ok) IN
       inv' = [inv EXCEPT ![t] =
                 IF ok
                 THEN Return(f, embed_query_result(client_embed(Pending(f))))
                 ELSE Raise(f, "TransportError")]
    /\ UNCHANGED <<kwargs, self, tqdm_installed, instances, tasks, ai_vars>>

aembed_query_enter(s, text, a) ==
    Issue([Idle EXCEPT !.kind = "aembed_query", !.on = a, !.texts = <<text>>],
          aembed_query_request(s, text))

aembed_query(t, a, text) ==
    /\ t \in tasks /\ inv[t].pc = "idle"
    /\ a \in instances /\ self[a].state = "built"
    /\ inv' = [inv EXCEPT ![t] = aembed_query_enter(self[a], text, a)]
    /\ UNCHANGED <<kwargs, self, tqdm_installed, instances, tasks, ai_vars>>

\* "r.embeddings[0]" of what the awaited call returned
aembed_query_result(r) == r[1]

aembed_query_resume(t, ok) ==
    /\ t \in tasks /\ inv[t].pc = "awaiting" /\ inv[t].kind = "aembed_query"
    /\ LET f == Responded(inv[t], ok) IN
       inv' = [inv EXCEPT ![t] =
                 IF ok
                 THEN Return(f, aembed_query_result(aclient_embed(Pending(f))))
                 ELSE Raise(f, "TransportError")]
    /\ UNCHANGED <<kwargs, self, tqdm_installed, instances, tasks, ai_vars>>

-----------------------------------------------------------------------------
(* VoyageAIEmbeddings(...)                                                 *)

construct(a) ==
    /\ a \in instances /\ self[a].state = "none"
    /\ self' = [self EXCEPT ![a] = construct_instance(kwargs[a])]
    /\ UNCHANGED <<kwargs, tqdm_installed, instances, tasks, inv, ai_vars>>

-----------------------------------------------------------------------------
(* AI21Base: resolution of the constructor options.                        *)
(* Strings of the environment that are read as numbers are sequences of    *)
(* decimal digits; the other strings are TLA+ strings.                     *)

_DEFAULT_TIMEOUT_SEC == 300
DefaultApiHost == "https://api.ai21.com"

\* Python truthiness of an Optional[str] / Optional[number]
TruthyStr(o) == ~IsNone(o) /\ Val(o) # ""
TruthyNum(o) == ~IsNone(o) /\ Val(o) # 0

\* a or b or c, on Optional[str] operands of which the last is a plain str
OrStr(a, b, c) == IF TruthyStr(a) THEN Val(a) ELSE IF TruthyStr(b) THEN Val(b) ELSE c

\* float(s) for a string of decimal digits; <<>> when it raises ValueError
RECURSIVE DigitsValue(_)
DigitsValue(d) ==
    IF d = <<>> THEN 0 ELSE 10 * DigitsValue(SubSeq(d, 1, Len(d) - 1)) + d[Len(d)]
float(d) == IF d = <<>> THEN None ELSE Some(DigitsValue(d))

\* os.getenv("AI21_TIMEOUT_SEC", _DEFAULT_TIMEOUT_SEC) passed through float()
env_timeout(env) ==
    IF IsNone(env.AI21_TIMEOUT_SEC)
    THEN Some(_DEFAULT_TIMEOUT_SEC)
    ELSE float(Val(env.AI21_TIMEOUT_SEC))

\* root_validator(pre=True) of AI21Base; raised is "" or the exception
validate_environment(values, env) ==
    LET api_key == OrStr(values.api_key, env.AI21_API_KEY, "")
        api_host == OrStr(values.api_host, env.AI21_API_URL, DefaultApiHost)
    IN  IF TruthyNum(values.timeout_sec)
        THEN [raised |-> "",
              values |-> [values EXCEPT !.api_key = Some(api_key),
                                        !.api_host = Some(api_host)]]
        ELSE IF IsNone(env_timeout(env))
             THEN [raised |-> "ValueError", values |-> values]
             ELSE [raised |-> "",
                   values |-> [values EXCEPT !.api_key = Some(api_key),
                                             !.api_host = Some(api_host),
                                             !.timeout_sec = env_timeout(env)]]

\* root_validator(pre=False): builds the client unless one was passed in
post_init(values) ==
    IF IsNone(values.client)
    THEN [values EXCEPT !.client =
            Some([api_key |-> Val(values.api_key),
                  api_host |-> Val(values.api_host),
                  timeout_sec |-> values.timeout_sec,
                  via |-> "langchain"])]
    ELSE values

AI21Args ==
    [api_key : {None, Some(""), Some("key-arg")},
     api_host : {None, Some(""), Some("https://arg.example")},
     timeout_sec : {None, Some(0), Some(5)},
     num_retries : {None, Some(3)},
     client : {None, Some([api_key |-> "injected", api_host |-> "injected",
                           timeout_sec |-> None, via |-> "caller"])}]

AI21Envs ==
    [AI21_API_KEY : {None, Some(""), Some("key-env")},
     AI21_API_URL : {None, Some(""), Some("https://env.example")},
     AI21_TIMEOUT_SEC : {None, Some(<<>>), Some(<<0>>), Some(<<1, 0>>)}]

AI21NoArgs ==
    [api_key |-> None, api_host |-> None, timeout_sec |-> None,
     num_retries |-> None, client |-> None]
AI21NoEnv ==
    [AI21_API_KEY |-> None, AI21_API_URL |-> None, AI21_TIMEOUT_SEC |-> None]

ai21_validate ==
    /\ ai_pc = "args"
    /\ LET r == validate_environment(ai_args, ai_env) IN
       /\ ai_values' = r.values
       /\ ai_pc' = IF r.raised = "" THEN "validated" ELSE "raised"
    /\ UNCHANGED <<ai_args, ai_env, voyage_vars>>

ai21_post_init ==
    /\ ai_pc = "validated"
    /\ ai_values' = post_init(ai_values)
    /\ ai_pc' = "built"
    /\ UNCHANGED <<ai_args, ai_env, voyage_vars>>

-----------------------------------------------------------------------------
(* Specifications.                                                         *)

VoyageOff ==
    /\ kwargs = [a \in Adapters |-> [model |-> None, batch_size |-> None,
                                     show_progress_bar |-> FALSE, truncation |-> None]]
    /\ self = [a \in Adapters |-> NotBuilt]
    /\ tqdm_installed = FALSE
    /\ instances = {}
    /\ tasks = {}
    /\ inv = [t \in Tasks |-> Idle]

AI21Off ==
    /\ ai_args = AI21NoArgs
    /\ ai_env = AI21NoEnv
    /\ ai_values = AI21NoArgs
    /\ ai_pc = "off"

\* one adapter, built from any keyword arguments, and one invocation on it
Init ==
    /\ \E kw \in AllKwargs : kwargs = [a \in Adapters |-> kw]
    /\ self = [a \in Adapters |-> NotBuilt]
    /\ tqdm_installed \in BOOLEAN
    /\ instances = {"A"}
    /\ tasks = {"t1"}
    /\ inv = [t \in Tasks |-> Idle]
    /\ AI21Off

\* two adapters, already built from the same keyword arguments except,
\* possibly, for show_progress_bar, and two invocations, each on either adapter
PairKwargs ==
    { kw \in AllKwargs : /\ kw.model = Some("voyage-large-2")
                         /\ kw.truncation \in {None, Some(TRUE)}
                         /\ ~kw.show_progress_bar }

InitPair ==
    /\ \E kw \in PairKwargs, p \in BOOLEAN :
          kwargs = [a \in Adapters |->
                      IF a = "A" THEN kw ELSE [kw EXCEPT !.show_progress_bar = p]]
    /\ self = [a \in Adapters |-> construct_instance(kwargs[a])]
    /\ tqdm_installed = TRUE
    /\ instances = Adapters
    /\ tasks = Tasks
    /\ inv = [t \in Tasks |-> Idle]
    /\ AI21Off

InitAI21 ==
    /\ VoyageOff
    /\ ai_args \in AI21Args
    /\ ai_env \in AI21Envs
    /\ ai_values = ai_args
    /\ ai_pc = "args"

Invoke ==
    \/ \E t \in Tasks, a \in Adapters, texts \in TextLists : embed_documents(t, a, texts)
    \/ \E t \in Tasks, ok \in BOOLEAN : embed_documents_response(t, ok)
    \/ \E t \in Tasks, a \in Adapters, texts \in TextLists : aembed_documents(t, a, texts)
    \/ \E t \in Tasks, ok \in BOOLEAN : aembed_documents_resume(t, ok)
    \/ \E t \in Tasks, a \in Adapters, text \in QueryTexts : embed_query(t, a, text)
    \/ \E t \in Tasks, ok \in BOOLEAN : embed_query_response(t, ok)
    \/ \E t \in Tasks, a \in Adapters, text \in QueryTexts : aembed_query(t, a, text)
    \/ \E t \in Tasks, ok \in BOOLEAN : aembed_query_resume(t, ok)

Next ==
    \/ \E a \in Adapters : construct(a)
    \/ Invoke

NextAI21 ==
    \/ ai21_validate
    \/ ai21_post_init

Spec == Init /\ [][Next]_vars
SpecPair == InitPair /\ [][Invoke]_vars
SpecAI21 == InitAI21 /\ [][NextAI21]_vars

-----------------------------------------------------------------------------
(* Vocabulary of the properties.                                           *)

Ceil(n, b) == (n + b - 1) \div b

\* the k-th (k = 0, 1, ...) contiguous slice texts[k*B : (k+1)*B]
Chunk(texts, k, B) ==
    [j \in 1..Min(B, Len(texts) - k * B) |-> texts[k * B + j]]

DocumentRequest(s, texts, k) ==
    [texts |-> Chunk(texts, k, s.batch_size), model |-> s.model,
     input_type |-> "document", truncation |-> s.truncation]

IsPrefix(p, q) == Len(p) <= Len(q) /\ \A j \in 1..Len(p) : p[j] = q[j]

NoDuplicates(q) == \A j, k \in 1..Len(q) : j # k => q[j] # q[k]

Started(t) == t \in tasks /\ inv[t].pc # "idle"
Documents == {"embed_documents", "aembed_documents"}
Queries == {"embed_query", "aembed_query"}
ProgressUnavailable(s) == s.show_progress_bar /\ ~tqdm_installed

-----------------------------------------------------------------------------
\* C1: for every list of N >= 0 texts and every batch size B >= 1 (progress
\* reporting off or available), embed_documents against a remote that answers
\* every call issues exactly ceil(N/B) calls, the k-th carrying
\* texts[k*B : (k+1)*B], and returns N vectors, result[i] being the vector the
\* remote produced for texts[i]; for N = 0 no call and the empty list.  Until
\* it returns, the calls issued so far are the first slices, in order, and it
\* raises only if the remote does.
C1_EmbedDocumentsBatches ==
    \A t \in Tasks :
        (Started(t) /\ inv[t].kind = "embed_documents") =>
            LET f == inv[t]
                s == self[f.on]
                B == s.batch_size
                N == Len(f.texts)
            IN  (B >= 1 /\ ~ProgressUnavailable(s)) =>
                    /\ \A k \in 1..Len(f.calls) :
                            f.calls[k] = DocumentRequest(s, f.texts, k - 1)
                    /\ Len(f.calls) <= Ceil(N, B)
                    /\ f.pc = "raised" => FALSE \in {f.responses[j] : j \in 1..Len(f.responses)}
                    /\ f.pc = "returned" =>
                        /\ Len(f.calls) = Ceil(N, B)
                        /\ Len(Val(f.result)) = N
                        /\ \A i \in 1..N :
                            /\ Val(f.result)[i] =
                                 client_embed(f.calls[((i - 1) \div B) + 1])[((i - 1) % B) + 1]
                            /\ Val(f.result)[i].text = f.texts[i]
                        /\ (N = 0 => f.calls = <<>> /\ Val(f.result) = <<>>)

\* three texts with batch size 2 came back: two calls, three vectors
C1_Witness ==
    \E t \in Tasks :
        /\ inv[t].kind = "embed_documents" /\ inv[t].pc = "returned"
        /\ Len(inv[t].texts) = 3 /\ self[inv[t].on].batch_size = 2
        /\ Len(inv[t].calls) = 2 /\ Len(Val(inv[t].result)) = 3

-----------------------------------------------------------------------------
\* C2: if the remote call for chunk k fails during embed_documents or
\* aembed_documents, the invocation ends in failure and returns no value: the
\* vectors of chunks 0..k-1 are not returned, the failing chunk was issued
\* once, and no call is issued for any later chunk (a finished invocation
\* does nothing more).
C2_FailureState ==
    \A t \in Tasks :
        (Started(t) /\ inv[t].kind \in Documents) =>
            LET f == inv[t]
                R == Len(f.responses)
            IN  /\ (\E j \in 1..R : ~f.responses[j]) =>
                    /\ f.pc = "raised" /\ f.error = "TransportError"
                    /\ f.result = None
                    /\ ~f.responses[R] /\ \A j \in 1..(R - 1) : f.responses[j]
                    /\ Len(f.calls) = R
                    /\ NoDuplicates(f.calls)
                /\ f.pc = "returned" =>
                    /\ \A j \in 1..R : f.responses[j]
                    /\ Len(f.calls) = R

C2_FailurePropagates ==
    /\ []C2_FailureState
    /\ [][\A t \in Tasks : inv[t].pc \in {"raised", "returned"} => inv'[t] = inv[t]]_vars

\* the second of three chunks failed after the first had succeeded
C2_Witness ==
    \E t \in Tasks :
        /\ inv[t].kind \in Documents /\ inv[t].pc = "raised"
        /\ Len(inv[t].texts) = 3 /\ self[inv[t].on].batch_size = 1
        /\ inv[t].responses = <<TRUE, FALSE>>
        /\ Len(inv[t].embeddings) = 1 /\ inv[t].result = None

-----------------------------------------------------------------------------
\* C3: within one aembed_documents invocation the call for chunk k+1 is not
\* issued before the call for chunk k has completed: at most one remote call
\* is outstanding, exactly when the coroutine is suspended, and the calls are
\* issued in increasing chunk order.
C3_SequentialDispatch ==
    \A t \in Tasks :
        (Started(t) /\ inv[t].kind = "aembed_documents") =>
            LET f == inv[t]
                s == self[f.on]
                outstanding == Len(f.calls) - Len(f.responses)
            IN  /\ outstanding \in {0, 1}
                /\ outstanding = 1 <=> f.pc = "awaiting"
                /\ Len(f.calls) > 0 => s.batch_size >= 1
                /\ \A k \in 1..Len(f.calls) :
                        f.calls[k] = DocumentRequest(s, f.texts, k - 1)

\* the second chunk's call is outstanding, the first has completed
C3_Witness ==
    \E t \in Tasks :
        /\ inv[t].kind = "aembed_documents" /\ inv[t].pc = "awaiting"
        /\ Len(inv[t].calls) = 2 /\ inv[t].responses = <<TRUE>>
        /\ Len(inv[t].iter) >= 1

-----------------------------------------------------------------------------
\* C7 (as stated): every adapter that construction accepts has the batch size
\* 72 (model voyage-2 / voyage-02) or 7 (any other model) when none was
\* supplied, the supplied value otherwise, and in both cases batch_size >= 1.
C7_BatchSizePositive ==
    \A a \in Adapters :
        self[a].state = "built" =>
            /\ IsNone(kwargs[a].batch_size) =>
                 self[a].batch_size =
                    (IF self[a].model \in {"voyage-2", "voyage-02"} THEN 72 ELSE 7)
            /\ ~IsNone(kwargs[a].batch_size) =>
                 self[a].batch_size = Val(kwargs[a].batch_size)
            /\ self[a].batch_size >= 1

-----------------------------------------------------------------------------
\* C8: with show_progress_bar = True and tqdm not importable, every
\* embed_documents / aembed_documents call fails with the ImportError, for
\* every input including the empty list and before any remote call is
\* issued; constructing the adapter does not fail for this reason.
C8_MissingProgressDependency ==
    /\ \A t \in Tasks :
        (Started(t) /\ inv[t].kind \in Documents
            /\ ProgressUnavailable(self[inv[t].on])) =>
                /\ inv[t].pc = "raised" /\ inv[t].error = "ImportError"
                /\ inv[t].calls = <<>> /\ inv[t].result = None
    /\ \A a \in Adapters :
        (kwargs[a].show_progress_bar /\ ~tqdm_installed
            /\ ~IsNone(kwargs[a].model) /\ self[a].state # "none") =>
                self[a].state = "built" /\ self[a].show_progress_bar

\* the empty list was refused for the missing dependency
C8_Witness ==
    \E t \in Tasks :
        /\ inv[t].kind \in Documents /\ inv[t].texts = <<>>
        /\ ProgressUnavailable(self[inv[t].on])
        /\ inv[t].pc = "raised" /\ inv[t].error = "ImportError"

-----------------------------------------------------------------------------
(* Two invocations that the remote answered alike.                         *)

SameOutcome(f, g) ==
    /\ f.pc = g.pc /\ f.calls = g.calls /\ f.error = g.error
    /\ f.embeddings = g.embeddings /\ f.result = g.result

Comparable(f, g) == IsPrefix(f.calls, g.calls) \/ IsPrefix(g.calls, f.calls)

\* C4: for every list of texts and every configuration, behind the same
\* deterministic remote, aembed_documents and embed_documents issue the same
\* sequence of chunk requests (contents, model, input type, truncation) and
\* return identical outputs, and so do aembed_query and embed_query: at any
\* moment the requests of one are a prefix of the other's, and once the remote
\* has answered both alike they are in the same position with the same calls,
\* accumulated vectors, result and error.
C4_AsyncSyncEquivalence ==
    \A t, u \in Tasks :
        (/\ Started(t) /\ Started(u)
         /\ \/ inv[t].kind = "embed_documents" /\ inv[u].kind = "aembed_documents"
            \/ inv[t].kind = "embed_query" /\ inv[u].kind = "aembed_query"
         /\ inv[t].texts = inv[u].texts
         /\ self[inv[t].on] = self[inv[u].on]) =>
            /\ Comparable(inv[t], inv[u])
            /\ inv[t].responses = inv[u].responses => SameOutcome(inv[t], inv[u])

\* both forms returned for three texts in batches of two
C4_Witness ==
    \E t, u \in Tasks :
        /\ inv[t].kind = "embed_documents" /\ inv[u].kind = "aembed_documents"
        /\ inv[t].pc = "returned" /\ inv[u].pc = "returned"
        /\ inv[t].texts = inv[u].texts /\ Len(inv[t].texts) = 3
        /\ self[inv[t].on] = self[inv[u].on] /\ self[inv[t].on].batch_size = 2
        /\ inv[t].result = inv[u].result /\ Len(inv[t].calls) = 2

-----------------------------------------------------------------------------
\* aembed_documents(texts) run alone on an instance, the remote answering
\* every call: the frame it ends in
RECURSIVE RunAlone(_, _)
RunAlone(s, f) ==
    IF f.pc = "awaiting"
    THEN RunAlone(s, aembed_documents_step([x \in {"alone"} |-> f], s, "alone", TRUE))
    ELSE f
Alone(s, f) == RunAlone(s, aembed_documents_enter(s, f.texts, tqdm_installed, f.on))

\* C5: concurrent invocations share no mutable state: under every
\* interleaving of in-flight aembed_documents calls each accumulates into its
\* own list (always a prefix of what it accumulates alone, made of its own
\* texts' vectors) and returns exactly what it returns when run alone, and no
\* invocation changes the held configuration.
C5_OwnAccumulator ==
    \A t \in Tasks :
        (Started(t) /\ inv[t].kind = "aembed_documents") =>
            LET f == inv[t]
                alone == Alone(self[f.on], f)
            IN  /\ IsPrefix(f.embeddings, alone.embeddings)
                /\ IsPrefix(f.calls, alone.calls)
                /\ \A i \in 1..Len(f.embeddings) : f.embeddings[i].text = f.texts[i]
                /\ f.pc = "returned" =>
                    /\ alone.pc = "returned"
                    /\ f.result = alone.result /\ f.calls = alone.calls

C5_NoSharedState ==
    /\ []C5_OwnAccumulator
    /\ [][self' = self]_vars

\* two aembed_documents calls on one instance, on different texts, are both
\* suspended in mid-loop, each with vectors already accumulated
C5_Witness ==
    \E t, u \in Tasks :
        /\ t # u /\ inv[t].on = inv[u].on
        /\ inv[t].kind = "aembed_documents" /\ inv[u].kind = "aembed_documents"
        /\ inv[t].pc = "awaiting" /\ inv[u].pc = "awaiting"
        /\ inv[t].embeddings # <<>> /\ inv[u].embeddings # <<>>
        /\ inv[t].texts # inv[u].texts

-----------------------------------------------------------------------------
\* C6 (as stated, for the positive batch sizes): embed_query(text) equals
\* embed_documents([text])[0], and aembed_query / aembed_documents likewise.
C6_QueryEqualsFirstDocument ==
    \A t, u \in Tasks :
        (/\ inv[t].kind \in Queries /\ inv[t].pc = "returned"
         /\ inv[u].kind \in Documents /\ inv[u].pc = "returned"
         /\ inv[u].texts = inv[t].texts
         /\ self[inv[t].on] = self[inv[u].on]
         /\ self[inv[u].on].batch_size >= 1) =>
            /\ Len(Val(inv[u].result)) = 1
            /\ Val(inv[t].result) = Val(inv[u].result)[1]

\* C6 (amended): embed_query / aembed_query issues exactly one remote call,
\* with the input [text], the configured model and truncation and input type
\* "query", and returns the only vector of that call's result.  Every call of
\* embed_documents / aembed_documents on [text] carries the same input, model
\* and truncation but input type "document" (exactly one such call when
\* batch_size >= 1), so the two vectors differ in the input type they were
\* requested for.
C6_QueryIsOneQueryCall ==
    /\ \A t \in Tasks :
        (Started(t) /\ inv[t].kind \in Queries) =>
            LET f == inv[t]
                s == self[f.on]
            IN  /\ Len(f.texts) = 1
                /\ f.calls = << [texts |-> f.texts, model |-> s.model,
                                 input_type |-> "query", truncation |-> s.truncation] >>
                /\ f.pc = "returned" =>
                    /\ Len(client_embed(f.calls[1])) = 1
                    /\ f.result = Some(client_embed(f.calls[1])[1])
                    /\ Val(f.result).text = f.texts[1]
    /\ \A u \in Tasks :
        (Started(u) /\ inv[u].kind \in Documents /\ Len(inv[u].texts) = 1) =>
            LET g == inv[u]
                s == self[g.on]
            IN  /\ \A k \in 1..Len(g.calls) :
                    g.calls[k] = [texts |-> g.texts, model |-> s.model,
                                  input_type |-> "document", truncation |-> s.truncation]
                /\ (g.pc = "returned" /\ s.batch_size >= 1) =>
                    /\ Len(g.calls) = 1
                    /\ Val(g.result) = client_embed(g.calls[1])
    /\ \A t, u \in Tasks :
        (/\ inv[t].kind \in Queries /\ inv[t].pc = "returned"
         /\ inv[u].kind \in Documents /\ inv[u].pc = "returned"
         /\ inv[u].texts = inv[t].texts
         /\ self[inv[t].on] = self[inv[u].on]
         /\ self[inv[u].on].batch_size >= 1) =>
            /\ Val(inv[u].result)[1] # Val(inv[t].result)
            /\ Val(inv[u].result)[1] = [Val(inv[t].result) EXCEPT !.input_type = "document"]

\* a query and the one-element document list of the same text both returned
C6_Witness ==
    \E t, u \in Tasks :
        /\ inv[t].kind = "embed_query" /\ inv[t].pc = "returned"
        /\ inv[u].kind = "embed_documents" /\ inv[u].pc = "returned"
        /\ inv[u].texts = inv[t].texts
        /\ inv[t].on = inv[u].on /\ self[inv[u].on].batch_size >= 1
        /\ Val(inv[t].result).input_type = "query"
        /\ Val(inv[u].result)[1].input_type = "document"

-----------------------------------------------------------------------------
SuccessCount(f) == Cardinality({ j \in 1..Len(f.responses) : f.responses[j] })

NoProgress(s) == [s EXCEPT !.show_progress_bar = FALSE]

\* C9: progress reporting is purely observational: two runs of
\* embed_documents (or of aembed_documents) on the same texts whose
\* configurations differ only in show_progress_bar, tqdm being available,
\* issue the same calls and return the same result (their calls are always
\* prefix-related and they agree once the remote has answered both alike),
\* and the progress bar has advanced once per completed chunk: by the number
\* of chunks when the run returns, never without show_progress_bar.
C9_ProgressIsObservational ==
    /\ \A t, u \in Tasks :
        (/\ Started(t) /\ Started(u)
         /\ inv[t].kind \in Documents /\ inv[u].kind = inv[t].kind
         /\ inv[t].texts = inv[u].texts
         /\ tqdm_installed
         /\ NoProgress(self[inv[t].on]) = NoProgress(self[inv[u].on])) =>
            /\ Comparable(inv[t], inv[u])
            /\ inv[t].responses = inv[u].responses => SameOutcome(inv[t], inv[u])
    /\ \A t \in Tasks :
        (Started(t) /\ inv[t].kind \in Documents /\ tqdm_installed) =>
            LET f == inv[t]
                s == self[f.on]
            IN  /\ f.n = (IF s.show_progress_bar THEN SuccessCount(f) ELSE 0)
                /\ (f.pc = "returned" /\ s.show_progress_bar /\ s.batch_size >= 1) =>
                        f.n = Ceil(Len(f.texts), s.batch_size)

\* the same three texts returned with and without the progress bar
C9_Witness ==
    \E t, u \in Tasks :
        /\ inv[t].kind \in Documents /\ inv[u].kind = inv[t].kind
        /\ inv[t].pc = "returned" /\ inv[u].pc = "returned"
        /\ inv[t].texts = inv[u].texts /\ Len(inv[t].texts) = 3
        /\ ~self[inv[t].on].show_progress_bar /\ self[inv[u].on].show_progress_bar
        /\ self[inv[u].on].batch_size = 2
        /\ inv[t].n = 0 /\ inv[u].n = 2
        /\ inv[t].result = inv[u].result

-----------------------------------------------------------------------------
\* C10 (as stated): each option is the explicitly passed argument if one was
\* given, else the environment variable if set (to a non-empty string), else
\* the hard-coded default; an explicitly passed value is never overridden by
\* the environment or the default.
EnvSet(e) == ~IsNone(e) /\ Val(e) # ""
EnvSetDigits(e) == ~IsNone(e) /\ Val(e) # <<>>

Precedence(arg, env, default) ==
    IF ~IsNone(arg) THEN arg ELSE IF ~IsNone(env) THEN env ELSE Some(default)

C10_ResolutionPrecedence ==
    ai_pc \in {"validated", "built"} =>
        /\ ai_values.api_key =
             Precedence(ai_args.api_key,
                        IF EnvSet(ai_env.AI21_API_KEY) THEN ai_env.AI21_API_KEY ELSE None,
                        "")
        /\ ai_values.api_host =
             Precedence(ai_args.api_host,
                        IF EnvSet(ai_env.AI21_API_URL) THEN ai_env.AI21_API_URL ELSE None,
                        "https://api.ai21.com")
        /\ ai_values.timeout_sec =
             Precedence(ai_args.timeout_sec,
                        IF EnvSetDigits(ai_env.AI21_TIMEOUT_SEC)
                        THEN float(Val(ai_env.AI21_TIMEOUT_SEC)) ELSE None,
                        300)
        /\ ai_values.num_retries = ai_args.num_retries

====
